---- MODULE Spec2Model ----
(***************************************************************************)
(* A model of facecrop: the crop geometry (src/cropping.rs), the           *)
(* post-processing policy (src/post_processing.rs) and the run of main     *)
(* (src/main.rs).                                                          *)
(*                                                                         *)
(* f32 values are modelled as exact extended rationals <<n, d>>:           *)
(*   d > 0   the finite value n/d, in lowest terms;                        *)
(*   <<1,0>> +infinity, <<-1,0>> -infinity, <<0,0>> NaN.                    *)
(* Rounding of f32 arithmetic and the sign of zero are not modelled.       *)
(***************************************************************************)
EXTENDS Integers, Sequences, FiniteSets, TLC

VARIABLES
    \* ---- calculate_face_crop, one call (SpecGeom) ----
    g_pc,        \* position inside calculate_face_crop
    g_face,      \* the face rectangle
    g_image,     \* the image rectangle, top-left at the origin
    g_params,    \* the validated CropParams
    g_dims,      \* <<crop_height, crop_width>>
    g_pos,       \* <<crop_x, crop_y>>
    g_crop,      \* the rectangle returned
    \* ---- post_process_image, one call (SpecPost) ----
    pp_pc, pp_image, pp_params, pp_out,
    \* ---- main (Spec) ----
    pc,          \* position inside main
    args,        \* the parsed command line
    world,       \* the file system main starts in
    effects,     \* what main has done to the outside so far
    abort,       \* why the run panicked: "none" while it has not
    crop_params, post_process_params,
    n_paths,     \* Len(paths.input_image_paths)
    img,         \* index of the image the for loop of main is at
    input_image, faces, crop_outputs,
    i,           \* the enumerate() index of process_faces
    saved,       \* the files written
    warnings     \* the warn! lines logged

gvars == <<g_pc, g_face, g_image, g_params, g_dims, g_pos, g_crop>>
pvars == <<pp_pc, pp_image, pp_params, pp_out>>
mvars == <<pc, args, world, effects, abort, crop_params, post_process_params,
           n_paths, img, input_image, faces, crop_outputs, i, saved, warnings>>
vars == <<gvars, pvars, mvars>>

\* Option: None and Some(x)
None == [some |-> FALSE]
Some(x) == [some |-> TRUE, val |-> x]
\* no panic
NoPanic == "none"
\* `let v = e; Body(v)`: e is evaluated once
Let(e, Body(_)) == CHOOSE r \in {Body(v) : v \in {e}} : TRUE

(***************************************************************************)
(* f32 arithmetic.  Every operation evaluates its operands once (Let,      *)
(* Let2) and then works on the values.                                     *)
(***************************************************************************)
Let2(a, b, Op(_, _)) == CHOOSE r \in {Op(x, y) : x \in {a}, y \in {b}} : TRUE

Abs(x) == IF x < 0 THEN -x ELSE x
Sgn(x) == IF x < 0 THEN -1 ELSE IF x > 0 THEN 1 ELSE 0
Min(a, b) == Let2(a, b, LAMBDA x, y : IF x < y THEN x ELSE y)

RECURSIVE GCD(_, _)
GCD(a, b) == IF b = 0 THEN a ELSE GCD(b, a % b)

\* the value n/d (d of either sign, 0 for the non-finite ones)
Q(n, d) ==
    Let2(n, d, LAMBDA x, y :
        IF y = 0 THEN <<Sgn(x), 0>>
        ELSE Let(GCD(Abs(x), Abs(y)), LAMBDA g : <<(Sgn(y) * x) \div g, Abs(y) \div g>>))

F(k) == <<k, 1>>
NaN == <<0, 0>>
PInf == <<1, 0>>
NInf == <<-1, 0>>
IsNaN(a) == a = NaN
IsFinite(a) == a[2] > 0

FAdd(a, b) ==
    Let2(a, b, LAMBDA x, y :
        IF x[2] = 0 /\ y[2] = 0
        THEN (IF x = y THEN x ELSE NaN)
        ELSE Q(x[1] * y[2] + y[1] * x[2], x[2] * y[2]))
FNeg(a) == Let(a, LAMBDA x : <<-x[1], x[2]>>)
FSub(a, b) == FAdd(a, FNeg(b))
FMul(a, b) == Let2(a, b, LAMBDA x, y : Q(x[1] * y[1], x[2] * y[2]))
FDiv(a, b) == Let2(a, b, LAMBDA x, y : FMul(x, Q(y[2], y[1])))

\* the comparisons of f32: false as soon as one side is NaN
FLt(a, b) ==
    Let2(a, b, LAMBDA x, y :
        /\ ~IsNaN(x)
        /\ ~IsNaN(y)
        /\ IF x[2] = 0 /\ y[2] = 0 THEN x[1] < y[1] ELSE x[1] * y[2] < y[1] * x[2])
FLe(a, b) == Let2(a, b, LAMBDA x, y : ~IsNaN(x) /\ ~IsNaN(y) /\ ~FLt(y, x))
FGt(a, b) == FLt(b, a)

\* f32::max and f32::min: the other argument when one is NaN
FMax(a, b) ==
    Let2(a, b, LAMBDA x, y :
        IF IsNaN(x) THEN y ELSE IF IsNaN(y) THEN x ELSE IF FLt(x, y) THEN y ELSE x)
FMin(a, b) ==
    Let2(a, b, LAMBDA x, y :
        IF IsNaN(x) THEN y ELSE IF IsNaN(y) THEN x ELSE IF FLt(y, x) THEN y ELSE x)

\* `v as u32`: toward zero, saturating, NaN to 0.  U32Max stands for u32::MAX:
\* the largest integer the checker holds, above every image dimension.
U32Max == 2147483647
AsU32(v) ==
    Let(v, LAMBDA x :
        IF IsNaN(x) THEN 0
        ELSE IF x[2] = 0 THEN (IF x[1] > 0 THEN U32Max ELSE 0)
        ELSE IF x[1] <= 0 THEN 0
        ELSE x[1] \div x[2])

\* `n as f32` of a u32
AsF32(n) == F(n)

(***************************************************************************)
(* Rect of rust_faces, as cropping.rs uses it                              *)
(***************************************************************************)
RectAt(x, y, width, height) == [x |-> x, y |-> y, width |-> width, height |-> height]
Right(r) == FAdd(r.x, r.width)
Bottom(r) == FAdd(r.y, r.height)

\* the edges both rectangles share: <<left, right, top, bottom>>
Edges(a, b) ==
    <<FMax(a.x, b.x), FMin(Right(a), Right(b)), FMax(a.y, b.y), FMin(Bottom(a), Bottom(b))>>

\* a plausible slip: the far edges are not cut to the image
IntersectionNoFarEdge(a, b) ==
    Let(Edges(a, b), LAMBDA e :
        RectAt(e[1], e[3], FSub(Right(a), e[1]), FSub(Bottom(a), e[3])))

\* Rect::intersection: the greater of the near edges, the lesser of the far
\* edges, and their difference as the extent
Intersection(a, b) ==
    Let(Edges(a, b), LAMBDA e :
        RectAt(e[1], e[3], FSub(e[2], e[1]), FSub(e[4], e[3])))

(***************************************************************************)
(* cropping.rs                                                             *)
(***************************************************************************)
calculate_crop_dimensions_by_ratios(face, aspect_ratio, proportion_of_face) ==
    LET crop_height == FDiv(face.height, proportion_of_face)
        crop_width == FMul(crop_height, aspect_ratio)
    IN  <<crop_height, crop_width>>

\* a plausible slip: the crop starts at the face's left edge
calculate_crop_position_left(face, crop_height, crop_width, top_padding) ==
    LET crop_x == face.x
        crop_y == FSub(face.y, FMul(crop_height, top_padding))
    IN  <<crop_x, crop_y>>

calculate_crop_position(face, crop_height, crop_width, top_padding) ==
    LET crop_x == FSub(FAdd(face.x, FDiv(face.width, F(2))), FDiv(crop_width, F(2)))
        crop_y == FSub(face.y, FMul(crop_height, top_padding))
    IN  <<crop_x, crop_y>>

\* the match of calculate_face_crop
crop_dimensions(face, params) ==
    IF params.kind = "Absolute"
    THEN <<AsF32(params.height), AsF32(params.width)>>
    ELSE calculate_crop_dimensions_by_ratios(face, params.aspect_ratio,
                                             params.proportion_of_face)

calculate_face_crop(face, image, params) ==
    Let(crop_dimensions(face, params), LAMBDA dims :
    Let(calculate_crop_position(face, dims[1], dims[2], params.top_padding), LAMBDA pos :
    Let(RectAt(pos[1], pos[2], dims[2], dims[1]), LAMBDA rect :
        Intersection(rect, image))))

\* an RgbImage: its dimensions, and whether its pixels are those cropped out of
\* the source ("crop") or resampled ones ("resampled")
Image(width, height, px) == [width |-> width, height |-> height, px |-> px]

\* image::imageops::crop_imm(..).to_image(): the view is cut to the image
CropImm(image, x, y, width, height) ==
    LET cx == Min(x, image.width)
        cy == Min(y, image.height)
    IN  Image(Min(width, image.width - cx), Min(height, image.height - cy), "crop")

\* the body of the for loop of crop_faces
CropOutput(an_image, face, c_params) ==
    Let(calculate_face_crop(face.rect,
            RectAt(F(0), F(0), AsF32(an_image.width), AsF32(an_image.height)),
            c_params), LAMBDA crop :
        [image |-> CropImm(an_image, AsU32(crop.x), AsU32(crop.y),
                           AsU32(crop.width), AsU32(crop.height)),
         confidence |-> face.confidence])

\* crop_faces: None for no faces, else one CropOutputs per face, in order
crop_faces(an_image, faces_to_crop, c_params) ==
    IF Len(faces_to_crop) = 0 THEN None
    ELSE Some([k \in 1..Len(faces_to_crop) |->
                  CropOutput(an_image, faces_to_crop[k], c_params)])

(***************************************************************************)
(* post_processing.rs                                                      *)
(***************************************************************************)
\* image::imageops::resize: a buffer of the dimensions asked for
Resize(image, nwidth, nheight) == Image(nwidth, nheight, "resampled")

\* a plausible slip: the size filter applied to the resized image
post_process_image_filter_last(an_image, params) ==
    LET resized_image == IF params.resize
                         THEN Resize(an_image, params.width, params.height)
                         ELSE an_image
    IN  IF /\ params.filter_by_size
           /\ (resized_image.width < params.width \/ resized_image.height < params.height)
        THEN None
        ELSE Some(resized_image)

\* a plausible slip: an image already large enough is not resized
post_process_image_upscale_only(an_image, params) ==
    IF /\ params.filter_by_size
       /\ (an_image.width < params.width \/ an_image.height < params.height)
    THEN None
    ELSE IF /\ params.resize
            /\ (an_image.width < params.width \/ an_image.height < params.height)
    THEN Some(Resize(an_image, params.width, params.height))
    ELSE Some(an_image)

post_process_image(an_image, params) ==
    IF /\ params.filter_by_size
       /\ (an_image.width < params.width \/ an_image.height < params.height)
    THEN None
    ELSE IF params.resize
    THEN Some(Resize(an_image, params.width, params.height))
    ELSE Some(an_image)

(***************************************************************************)
(* main.rs: the validation of the command line                             *)
(***************************************************************************)
Absolute(top_padding, height, width) ==
    [top_padding |-> top_padding, kind |-> "Absolute", height |-> height, width |-> width]
Relative(top_padding, aspect_ratio, proportion_of_face) ==
    [top_padding |-> top_padding, kind |-> "Relative",
     aspect_ratio |-> aspect_ratio, proportion_of_face |-> proportion_of_face]

\* get_crop_params: the panic message, or the CropParams
get_crop_params(a) ==
    IF FLt(a.top_padding, F(0)) \/ FGt(a.top_padding, F(1))
    THEN [panic |-> "Top padding must be between 0.0 and 1.0"]
    ELSE IF a.strategy = "Absolute"
    THEN [panic |-> NoPanic, params |-> Absolute(a.top_padding, a.height, a.width)]
    ELSE IF FLe(a.aspect_ratio, F(0))
    THEN [panic |-> "Aspect ratio must be greater than 0"]
    ELSE IF FLt(a.proportion_of_face, F(0)) \/ FGt(a.proportion_of_face, F(1))
    THEN [panic |-> "Proportion of face must be between 0.0 and 1.0"]
    ELSE [panic |-> NoPanic,
          params |-> Relative(a.top_padding, a.aspect_ratio, a.proportion_of_face)]

get_post_process_params(a) ==
    [resize |-> a.resize, filter_by_size |-> a.filter_by_size,
     height |-> a.height, width |-> a.width]

(***************************************************************************)
(* SpecGeom: one call of calculate_face_crop on every input of the bounds  *)
(***************************************************************************)
MaxImageDim == 4

GeomTopPaddings == {Q(-1, 2), F(0), Q(1, 2), F(1), Q(3, 2)}
GeomAspectRatios == {F(0), Q(1, 2), F(1), F(2)}
GeomProportions == {Q(-1, 2), F(0), Q(1, 2), F(1), F(2)}
GeomSizes == {0, 1, 3}
GeomArgs ==
    [strategy : {"Absolute", "Relative"}, aspect_ratio : GeomAspectRatios,
     top_padding : GeomTopPaddings, proportion_of_face : GeomProportions,
     height : GeomSizes, width : GeomSizes, resize : {FALSE}, filter_by_size : {FALSE}]
\* the CropParams get_crop_params returns
ValidatedParams == {get_crop_params(a).params : a \in {b \in GeomArgs : get_crop_params(b).panic = NoPanic}}

FacePositions == {F(-3), F(0), Q(1, 2), F(MaxImageDim - 1), F(MaxImageDim + 2)}
FaceExtents == {F(0), F(1), F(2)}
FaceRects == {RectAt(x, y, w, h) : x \in FacePositions, y \in FacePositions,
                                   w \in FaceExtents, h \in FaceExtents}
ImageRects == {RectAt(F(0), F(0), AsF32(w), AsF32(h)) : w \in {1, MaxImageDim}, h \in {1, MaxImageDim}}

NoRect == RectAt(NaN, NaN, NaN, NaN)

MainIdle ==
    /\ pc = "idle" /\ args = None /\ world = None /\ effects = {} /\ abort = NoPanic
    /\ crop_params = None /\ post_process_params = None /\ n_paths = 0 /\ img = 0
    /\ input_image = None /\ faces = <<>> /\ crop_outputs = None /\ i = 0
    /\ saved = {} /\ warnings = {}
PostIdle == pp_pc = "idle" /\ pp_image = None /\ pp_params = None /\ pp_out = None
GeomIdle ==
    /\ g_pc = "idle" /\ g_face = NoRect /\ g_image = NoRect /\ g_params = None
    /\ g_dims = <<NaN, NaN>> /\ g_pos = <<NaN, NaN>> /\ g_crop = NoRect

GeomInit ==
    /\ g_pc = "dimensions"
    /\ g_face \in FaceRects
    /\ g_image \in ImageRects
    /\ g_params \in ValidatedParams
    /\ g_dims = <<NaN, NaN>> /\ g_pos = <<NaN, NaN>> /\ g_crop = NoRect
    /\ PostIdle /\ MainIdle

\* cropping.rs 99-108
GeomDimensions ==
    /\ g_pc = "dimensions"
    /\ g_dims' = crop_dimensions(g_face, g_params)
    /\ g_pc' = "position"
    /\ UNCHANGED <<g_face, g_image, g_params, g_pos, g_crop, pvars, mvars>>

\* cropping.rs 110-111
GeomPosition ==
    /\ g_pc = "position"
    /\ g_pos' = calculate_crop_position(g_face, g_dims[1], g_dims[2], g_params.top_padding)
    /\ g_pc' = "clamp"
    /\ UNCHANGED <<g_face, g_image, g_params, g_dims, g_crop, pvars, mvars>>

\* cropping.rs 113-115
GeomClamp ==
    /\ g_pc = "clamp"
    /\ g_crop' = Intersection(RectAt(g_pos[1], g_pos[2], g_dims[2], g_dims[1]), g_image)
    /\ g_pc' = "returned"
    /\ UNCHANGED <<g_face, g_image, g_params, g_dims, g_pos, pvars, mvars>>

GeomNext == GeomDimensions \/ GeomPosition \/ GeomClamp
SpecGeom == GeomInit /\ [][GeomNext]_vars

\* the rectangle calculate_face_crop is about to cut to the image
PreClamp == RectAt(g_pos[1], g_pos[2], g_dims[2], g_dims[1])
CenterX(r) == FAdd(r.x, FDiv(r.width, F(2)))

\* the ranges of the data model: top_padding in [0,1]; Absolute: height, width
\* positive; Relative: aspect_ratio > 0 and proportion_of_face in (0,1]
InDataModelRange(params) ==
    /\ FLe(F(0), params.top_padding) /\ FLe(params.top_padding, F(1))
    /\ params.kind = "Absolute" => params.height > 0 /\ params.width > 0
    /\ params.kind = "Relative" =>
          /\ FGt(params.aspect_ratio, F(0))
          /\ FGt(params.proportion_of_face, F(0))
          /\ FLe(params.proportion_of_face, F(1))
PositiveExtent(r) == FGt(r.width, F(0)) /\ FGt(r.height, F(0))

\* C1: the rectangle calculate_face_crop returns lies inside the image rectangle:
\* 0 <= x, 0 <= y, x + width <= image_width and y + height <= image_height.
C1_CropInsideImage ==
    g_pc = "returned" =>
        /\ FLe(F(0), g_crop.x)
        /\ FLe(F(0), g_crop.y)
        /\ FLe(FAdd(g_crop.x, g_crop.width), g_image.width)
        /\ FLe(FAdd(g_crop.y, g_crop.height), g_image.height)

\* a crop that reached past the right and the bottom edge and was cut to them
C1_Witness ==
    /\ g_pc = "returned"
    /\ FGt(Right(PreClamp), g_image.width)
    /\ FGt(Bottom(PreClamp), g_image.height)
    /\ FGt(g_crop.width, F(0)) /\ FGt(g_crop.height, F(0))
    /\ Right(g_crop) = g_image.width /\ Bottom(g_crop) = g_image.height

\* C2: the rectangle calculate_face_crop returns has width >= 0 and height >= 0,
\* also when the crop computed does not overlap the image.  Stated for params
\* inside the data-model ranges and faces of positive extent.
C2_NonNegativeExtent ==
    (/\ g_pc = "returned"
     /\ InDataModelRange(g_params)
     /\ PositiveExtent(g_face)) => FLe(F(0), g_crop.width) /\ FLe(F(0), g_crop.height)

\* C6: before clamping, the crop is the reference: (height, width) of the params for
\* Absolute; crop_height * p = face.height and crop_width = crop_height * a for
\* Relative; crop_y + crop_height * top_padding = face.y, crop_y = face.y when
\* top_padding = 0; 2 * crop_x + crop_width = 2 * face.x + face.width.  Stated for
\* faces of positive extent.
C6_PreClampReference ==
    (g_pc \in {"clamp", "returned"} /\ PositiveExtent(g_face)) =>
        /\ g_params.kind = "Absolute" => g_dims = <<F(g_params.height), F(g_params.width)>>
        /\ g_params.kind = "Relative" =>
              /\ FMul(g_dims[1], g_params.proportion_of_face) = g_face.height
              /\ g_dims[2] = FMul(g_dims[1], g_params.aspect_ratio)
        /\ FAdd(g_pos[2], FMul(g_dims[1], g_params.top_padding)) = g_face.y
        /\ g_params.top_padding = F(0) => g_pos[2] = g_face.y
        /\ FAdd(FMul(F(2), g_pos[1]), g_dims[2]) = FAdd(FMul(F(2), g_face.x), g_face.width)

\* C6 on the params inside the data-model ranges
C6_PreClampReferenceInRange ==
    InDataModelRange(g_params) => C6_PreClampReference

\* C7 as stated: the horizontal center of the rectangle returned is the face's.
\* Stated for params inside the data-model ranges, faces of positive extent and
\* crops that overlap the image.
C7_CenterPreserved ==
    (/\ g_pc = "returned"
     /\ InDataModelRange(g_params)
     /\ PositiveExtent(g_face)
     /\ FGt(g_crop.width, F(0)) /\ FGt(g_crop.height, F(0))) => CenterX(g_crop) = CenterX(g_face)

\* C7 as amended: when the crop computed is not cut at the image's left or right
\* edge, the horizontal center of the rectangle returned is the face's.
C7_CenterWhenNotCut ==
    (/\ g_pc = "returned"
     /\ FLe(F(0), PreClamp.x)
     /\ FLe(Right(PreClamp), g_image.width)) => CenterX(g_crop) = CenterX(g_face)

\* a crop wider than its face, inside the image from left to right
C7_Witness ==
    /\ g_pc = "returned"
    /\ FLe(F(0), PreClamp.x)
    /\ FLe(Right(PreClamp), g_image.width)
    /\ FGt(g_crop.width, g_face.width)
    /\ FGt(g_face.width, F(0))

(***************************************************************************)
(* SpecPost: one call of post_process_image on every input of the bounds   *)
(***************************************************************************)
MaxCropDim == 3

PostImages == {Image(w, h, "crop") : w \in 0..MaxCropDim, h \in 0..MaxCropDim}
PostParams == [resize : BOOLEAN, filter_by_size : BOOLEAN,
               height : 0..MaxCropDim, width : 0..MaxCropDim]

PostInit ==
    /\ pp_pc = "call"
    /\ pp_image \in PostImages
    /\ pp_params \in PostParams
    /\ pp_out = None
    /\ GeomIdle /\ MainIdle

PostProcess ==
    /\ pp_pc = "call"
    /\ pp_out' = post_process_image(pp_image, pp_params)
    /\ pp_pc' = "returned"
    /\ UNCHANGED <<pp_image, pp_params, gvars, mvars>>

PostNext == PostProcess
SpecPost == PostInit /\ [][PostNext]_vars

TooSmall(image, params) == image.width < params.width \/ image.height < params.height

\* C3: post_process_image returns nothing exactly when filter_by_size is set and
\* the input is narrower or lower than the target, whatever resize is; with the
\* filter set, resize unset and an input large enough, the input is returned as is.
C3_FilterBeforeResize ==
    pp_pc = "returned" =>
        /\ pp_out = None <=> (pp_params.filter_by_size /\ TooSmall(pp_image, pp_params))
        /\ (/\ pp_params.filter_by_size
            /\ ~pp_params.resize
            /\ ~TooSmall(pp_image, pp_params)) => pp_out = Some(pp_image)

\* a crop too small is dropped although resize is set
C3_Witness ==
    /\ pp_pc = "returned"
    /\ pp_params.filter_by_size /\ pp_params.resize
    /\ pp_image.width > 0 /\ pp_image.width < pp_params.width
    /\ pp_image.height >= pp_params.height
    /\ pp_out = None

\* C4: with resize set, what post_process_image returns has the dimensions
\* (params.width, params.height), whatever the input's size; without the filter
\* it returns an image for every input.
C4_ResizeExact ==
    (pp_pc = "returned" /\ pp_params.resize) =>
        /\ pp_out # None => (/\ pp_out.val.width = pp_params.width
                             /\ pp_out.val.height = pp_params.height)
        /\ ~pp_params.filter_by_size => pp_out # None

\* a crop larger than the target is brought down to it, with the filter set
C4_Witness ==
    /\ pp_pc = "returned"
    /\ pp_params.resize /\ pp_params.filter_by_size
    /\ pp_image.width > pp_params.width /\ pp_image.height > pp_params.height
    /\ pp_params.width > 0 /\ pp_params.height > 0
    /\ pp_out # None
    /\ pp_out.val.width = pp_params.width /\ pp_out.val.height = pp_params.height

(***************************************************************************)
(* Spec: the run of main                                                   *)
(***************************************************************************)
MaxImages == 2
MaxFaces == 2

\* the command lines tried: the values a strategy does not read are the defaults
MainArgs ==
    {[strategy |-> "Absolute", aspect_ratio |-> F(1), top_padding |-> t,
      proportion_of_face |-> Q(1, 2), height |-> 2, width |-> 2,
      resize |-> fl, filter_by_size |-> fl] :
        t \in {F(0), Q(3, 2)}, fl \in BOOLEAN}
    \cup
    {[strategy |-> "Relative", aspect_ratio |-> a, top_padding |-> t,
      proportion_of_face |-> p, height |-> 2, width |-> 2,
      resize |-> FALSE, filter_by_size |-> FALSE] :
        t \in {F(0), Q(3, 2)}, a \in {F(0), F(1)}, p \in {F(0), Q(1, 2), F(2)}}

\* what image_path_or_dir and output_dir name when main starts
Worlds ==
    {[input |-> "missing", output |-> "missing"], [input |-> "file", output |-> "dir"],
     [input |-> "dir", output |-> "file"], [input |-> "dir", output |-> "missing"]}

\* what the decoder and the detector may hand back
MainImages == {Image(MaxImageDim, MaxImageDim, "source")}
Face(x, y, w, h, confidence) == [rect |-> RectAt(x, y, w, h), confidence |-> confidence]
MainFaces == {Face(F(1), F(1), F(2), F(2), Q(9, 10)),
              Face(F(MaxImageDim - 1), F(MaxImageDim - 1), F(2), F(2), Q(1, 2))}
SeqsUpTo(S, n) == UNION {[1..k -> S] : k \in 0..n}
FaceLists == SeqsUpTo(MainFaces, MaxFaces)

Init ==
    /\ pc = "get_paths"
    /\ args \in MainArgs
    /\ world \in Worlds
    /\ effects = {} /\ abort = NoPanic
    /\ crop_params = None /\ post_process_params = None /\ n_paths = 0 /\ img = 0
    /\ input_image = None /\ faces = <<>> /\ crop_outputs = None /\ i = 0
    /\ saved = {} /\ warnings = {}
    /\ GeomIdle /\ PostIdle

Panic(why) == pc' = "aborted" /\ abort' = why

\* get_paths, main.rs 172-174: the input path does not exist
GetPathsNoInput ==
    /\ pc = "get_paths"
    /\ world.input = "missing"
    /\ Panic("io")
    /\ UNCHANGED <<args, world, effects, crop_params, post_process_params, n_paths, img,
                   input_image, faces, crop_outputs, i, saved, warnings, gvars, pvars>>

\* what get_paths has done once the input paths are collected
Listed == IF world.input = "dir" THEN {"input_dir_listed"} ELSE {}

\* get_paths, main.rs 175-205: the output path is a file
GetPathsOutputIsFile ==
    /\ pc = "get_paths"
    /\ world.input # "missing"
    /\ world.output = "file"
    /\ effects' = effects \cup Listed
    /\ Panic("io")
    /\ UNCHANGED <<args, world, crop_params, post_process_params, n_paths, img,
                   input_image, faces, crop_outputs, i, saved, warnings, gvars, pvars>>

\* get_paths, main.rs 175-212: the paths are collected, the output directory made
GetPathsOk ==
    /\ pc = "get_paths"
    /\ world.input # "missing"
    /\ world.output # "file"
    /\ \E n \in 0..MaxImages :
          /\ world.input = "file" => n = 1
          /\ n_paths' = n
    /\ effects' = effects \cup Listed
                    \cup (IF world.output = "missing" THEN {"output_dir_created"} ELSE {})
    /\ pc' = "get_crop_params"
    /\ UNCHANGED <<args, world, abort, crop_params, post_process_params, img,
                   input_image, faces, crop_outputs, i, saved, warnings, gvars, pvars>>

\* main.rs 141: get_crop_params returns or panics
GetCropParams ==
    /\ pc = "get_crop_params"
    /\ LET r == get_crop_params(args)
       IN  IF r.panic # NoPanic
           THEN Panic("config") /\ UNCHANGED crop_params
           ELSE /\ crop_params' = Some(r.params)
                /\ pc' = "get_post_process_params"
                /\ UNCHANGED abort
    /\ UNCHANGED <<args, world, effects, post_process_params, n_paths, img,
                   input_image, faces, crop_outputs, i, saved, warnings, gvars, pvars>>

\* main.rs 142
GetPostProcessParams ==
    /\ pc = "get_post_process_params"
    /\ post_process_params' = Some(get_post_process_params(args))
    /\ pc' = "get_face_detector"
    /\ UNCHANGED <<args, world, effects, abort, crop_params, n_paths, img,
                   input_image, faces, crop_outputs, i, saved, warnings, gvars, pvars>>

\* main.rs 145, cropping.rs 42-50: the detector is built
GetFaceDetector ==
    /\ pc = "get_face_detector"
    /\ effects' = effects \cup {"detector_built"}
    /\ pc' = "next_image"
    /\ UNCHANGED <<args, world, abort, crop_params, post_process_params, n_paths, img,
                   input_image, faces, crop_outputs, i, saved, warnings, gvars, pvars>>

\* cropping.rs 48: building the detector fails
GetFaceDetectorFails ==
    /\ pc = "get_face_detector"
    /\ Panic("detector")
    /\ UNCHANGED <<args, world, effects, crop_params, post_process_params, n_paths, img,
                   input_image, faces, crop_outputs, i, saved, warnings, gvars, pvars>>

\* main.rs 148-149, 254-260: the next image is read
ReadImage ==
    /\ pc = "next_image"
    /\ img < n_paths
    /\ \E im \in MainImages : input_image' = Some(im)
    /\ effects' = effects \cup {"image_read"}
    /\ pc' = "detect"
    /\ UNCHANGED <<args, world, abort, crop_params, post_process_params, n_paths, img,
                   faces, crop_outputs, i, saved, warnings, gvars, pvars>>

\* main.rs 256: the image cannot be opened
ReadImageFails ==
    /\ pc = "next_image"
    /\ img < n_paths
    /\ Panic("io")
    /\ UNCHANGED <<args, world, effects, crop_params, post_process_params, n_paths, img,
                   input_image, faces, crop_outputs, i, saved, warnings, gvars, pvars>>

\* main.rs 151, cropping.rs 52-63: the detector answers
DetectFaces ==
    /\ pc = "detect"
    /\ faces' \in FaceLists
    /\ pc' = "process_faces"
    /\ UNCHANGED <<args, world, effects, abort, crop_params, post_process_params, n_paths,
                   img, input_image, crop_outputs, i, saved, warnings, gvars, pvars>>

\* cropping.rs 60: the detector fails
DetectFacesFails ==
    /\ pc = "detect"
    /\ Panic("detector")
    /\ UNCHANGED <<args, world, effects, crop_params, post_process_params, n_paths, img,
                   input_image, faces, crop_outputs, i, saved, warnings, gvars, pvars>>

\* a plausible slip: an image without crops ends the run
NoCropsHalts ==
    /\ pc = "process_faces"
    /\ ~crop_faces(input_image.val, faces, crop_params.val).some
    /\ Panic("no_crops")
    /\ UNCHANGED <<args, world, effects, crop_params, post_process_params, n_paths, img,
                   input_image, faces, crop_outputs, i, saved, warnings, gvars, pvars>>

\* main.rs 269-273: crop_faces returns None; the image is skipped with a warning
NoCrops ==
    /\ pc = "process_faces"
    /\ ~crop_faces(input_image.val, faces, crop_params.val).some
    /\ warnings' = warnings \cup {[warn |-> "No crops for image", image |-> img]}
    /\ img' = img + 1
    /\ pc' = "next_image"
    /\ UNCHANGED <<args, world, effects, abort, crop_params, post_process_params, n_paths,
                   input_image, faces, crop_outputs, i, saved, gvars, pvars>>

\* main.rs 269-275: crop_faces returns the crops; the loop over them begins
CropFaces ==
    /\ pc = "process_faces"
    /\ crop_faces(input_image.val, faces, crop_params.val).some
    /\ crop_outputs' = crop_faces(input_image.val, faces, crop_params.val)
    /\ i' = 0
    /\ pc' = "crops"
    /\ UNCHANGED <<args, world, effects, abort, crop_params, post_process_params, n_paths,
                   img, input_image, faces, saved, warnings, gvars, pvars>>

\* the crop the loop of process_faces is at, and what post-processing makes of it
Crop == crop_outputs.val[i + 1]
OutputImage == post_process_image(Crop.image, post_process_params.val)

\* a plausible slip: the crops saved so far are counted, not the faces
enumerate_index_of_saved(position, n_saved) == n_saved

\* main.rs 275: the index enumerate() gives the crop, its position in crop_outputs
enumerate_index(position, n_saved) == position

FaceIndex == enumerate_index(i, Cardinality({f \in saved : f.image = img}))

\* main.rs 278-290: the crop is saved as {image}-{i}-{confidence}.jpg
SaveCrop ==
    /\ pc = "crops"
    /\ i < Len(crop_outputs.val)
    /\ OutputImage # None
    /\ saved' = saved \cup {[image |-> img, face_index |-> FaceIndex,
                             confidence |-> Crop.confidence,
                             width |-> OutputImage.val.width,
                             height |-> OutputImage.val.height]}
    /\ effects' = effects \cup {"crop_written"}
    /\ i' = i + 1
    /\ UNCHANGED <<pc, args, world, abort, crop_params, post_process_params, n_paths,
                   img, input_image, faces, crop_outputs, warnings, gvars, pvars>>

\* main.rs 283: the crop cannot be written
SaveCropFails ==
    /\ pc = "crops"
    /\ i < Len(crop_outputs.val)
    /\ OutputImage # None
    /\ Panic("io")
    /\ UNCHANGED <<args, world, effects, crop_params, post_process_params, n_paths, img,
                   input_image, faces, crop_outputs, i, saved, warnings, gvars, pvars>>

\* main.rs 291: the crop is too small; it is skipped with a warning
SkipCrop ==
    /\ pc = "crops"
    /\ i < Len(crop_outputs.val)
    /\ OutputImage = None
    /\ warnings' = warnings \cup {[warn |-> "Cropped image is too small", image |-> img,
                                   face_index |-> i]}
    /\ i' = i + 1
    /\ UNCHANGED <<pc, args, world, effects, abort, crop_params, post_process_params,
                   n_paths, img, input_image, faces, crop_outputs, saved, gvars, pvars>>

\* main.rs 293-294, 166: process_faces returns; the for loop of main goes on
ProcessFacesReturns ==
    /\ pc = "crops"
    /\ i = Len(crop_outputs.val)
    /\ img' = img + 1
    /\ pc' = "next_image"
    /\ UNCHANGED <<args, world, effects, abort, crop_params, post_process_params, n_paths,
                   input_image, faces, crop_outputs, i, saved, warnings, gvars, pvars>>

\* main.rs 167: every image has been processed
Finished ==
    /\ pc = "next_image"
    /\ img = n_paths
    /\ pc' = "done"
    /\ UNCHANGED <<args, world, effects, abort, crop_params, post_process_params, n_paths,
                   img, input_image, faces, crop_outputs, i, saved, warnings, gvars, pvars>>

Next ==
    \/ GetPathsNoInput \/ GetPathsOutputIsFile \/ GetPathsOk
    \/ GetCropParams \/ GetPostProcessParams
    \/ GetFaceDetector \/ GetFaceDetectorFails
    \/ ReadImage \/ ReadImageFails
    \/ DetectFaces \/ DetectFacesFails
    \/ NoCrops \/ CropFaces
    \/ SaveCrop \/ SaveCropFails \/ SkipCrop
    \/ ProcessFacesReturns \/ Finished

Spec == Init /\ [][Next]_vars

\* main is one thread that runs until it returns or panics
FairSpec == Spec /\ WF_vars(Next)

\* C5: every CropParams get_crop_params returns is inside the ranges of the data
\* model: top_padding in [0,1]; Relative: aspect_ratio > 0, proportion_of_face in
\* (0,1]; Absolute: height and width positive.
C5_ValidatedParamsInRange ==
    crop_params # None => InDataModelRange(crop_params.val)

\* C8: a run that aborts on an invalid configuration has done nothing to the
\* outside before: no directory listed or created, no detector, no image read,
\* no crop written.
C8_AbortBeforeAnyEffect ==
    (pc = "aborted" /\ abort = "config") => effects = {}

\* the part of C8 the code keeps: no detector, no image read, no crop written
C8_NoProcessingBeforeAbort ==
    (pc = "aborted" /\ abort = "config") =>
        effects \cap {"detector_built", "image_read", "crop_written"} = {}

\* C9: an image without faces (crop_faces returns None) and a crop the size filter
\* rejects write no file and do not end the run: the loop goes on to the next image,
\* the next crop; the run panics only on a configuration, I/O or detector failure,
\* and it ends, having gone through every image when it is done.
C9_SkipsDoNotHalt ==
    /\ [](pc = "process_faces" /\ faces = <<>> =>
             ~crop_faces(input_image.val, faces, crop_params.val).some)
    /\ [][(pc = "process_faces" /\ faces = <<>>) =>
             (/\ saved' = saved /\ abort' = NoPanic
              /\ pc' = "next_image" /\ img' = img + 1)]_vars
    /\ [][(pc = "crops" /\ i < Len(crop_outputs.val) /\ OutputImage = None) =>
             (/\ saved' = saved /\ abort' = NoPanic
              /\ pc' = "crops" /\ img' = img /\ i' = i + 1)]_vars
    /\ [](pc = "aborted" => abort \in {"config", "io", "detector"})
    /\ [](pc = "done" => img = n_paths /\ abort = NoPanic)
    /\ <>(pc \in {"done", "aborted"})

\* a finished run that skipped an image without faces and a crop too small, and
\* saved a later crop of that image and a crop of a later image
C9_Witness ==
    /\ pc = "done"
    /\ \E w \in warnings :
          /\ w.warn = "No crops for image"
          /\ \E f \in saved : f.image > w.image
    /\ \E w \in warnings :
          /\ w.warn = "Cropped image is too small"
          /\ \E f \in saved : f.image = w.image /\ f.face_index > w.face_index

\* the files process_faces has written for the image it is at
SavedOfImage == {f \in saved : f.image = img}

\* C10: crop_faces returns one output per face, in the detector's order, with the
\* face's confidence; the crop of face k is saved under index k, whatever was
\* discarded before it; no two files of an image share an index; an image with N
\* faces has between 0 and N files.
C10_IndexIsDetectorPosition ==
    /\ pc = "crops" =>
          /\ Len(crop_outputs.val) = Len(faces)
          /\ \A k \in 1..Len(faces) : crop_outputs.val[k].confidence = faces[k].confidence
          /\ \A f \in SavedOfImage :
                /\ f.face_index \in 0..(i - 1)
                /\ f.confidence = faces[f.face_index + 1].confidence
          /\ Cardinality(SavedOfImage) <= Len(faces)
    /\ \A f, g \in saved : (f.image = g.image /\ f.face_index = g.face_index) => f = g

\* the first of two crops was discarded and the second saved under index 1
C10_Witness ==
    /\ pc = "crops"
    /\ Len(faces) = 2 /\ i = 2
    /\ \E w \in warnings :
          w.warn = "Cropped image is too small" /\ w.image = img /\ w.face_index = 0
    /\ \E f \in SavedOfImage : f.face_index = 1
    /\ Cardinality(SavedOfImage) = 1

====
